---- MODULE Spec2Model ----
(***************************************************************************)
(* Model of the Gemini proxy server (index.ts; compiled copy in            *)
(* src/unnamed/part_000).  One inbound request is routed by pathname to    *)
(* one of four handlers; a handler validates its query parameters, builds  *)
(* the upstream URL, awaits fetchAndFormatResponse and wraps the envelope  *)
(* in a Response.                                                          *)
(*                                                                         *)
(* Strings that the program concatenates or that a later reader parses     *)
(* (query values, upstream URLs) are sequences of tokens: "a&url=b" is     *)
(* <<"a","&","url","=","b">>, the empty string is <<>>.  Other strings     *)
(* (paths, reply texts) are TLA+ strings.  JavaScript values are tagged    *)
(* records [t |-> type, v |-> text].                                       *)
(*                                                                         *)
(* A request carries its query as URLSearchParams holds it: the list of    *)
(* name/value pairs in order, values already percent-decoded; a JSON body  *)
(* is given as the value response.json() yields, or as unparseable.        *)
(***************************************************************************)
EXTENDS Integers, Sequences, FiniteSets, TLC

\* Longest query string (number of name=value pairs) of an inbound request.
MaxParams == 2

----------------------------------------------------------------------------
\* JavaScript / JSON values

JStr(s) == [t |-> "string", v |-> s]
JNum(s) == [t |-> "number", v |-> s]
JBool(s) == [t |-> "boolean", v |-> s]
JNull == [t |-> "null", v |-> ""]
JArray == [t |-> "array", v |-> "[]"]
Undefined == [t |-> "undefined", v |-> ""]
JObject(fields) == [t |-> "object", f |-> fields]

NoFields == [k \in {} |-> Undefined]

\* a URLSearchParams.get result: null, or a string (token sequence)
Null == [has |-> FALSE, s |-> <<>>]
Some(s) == [has |-> TRUE, s |-> s]

----------------------------------------------------------------------------
\* Inputs: inbound requests

Conns == {"c1"}
Methods == {"GET", "POST"}
Registered == {"/gemini", "/geminiAdvance", "/readImage", "/video"}
Paths == Registered \cup {"/unknown", "/gemini/", "/Gemini"}
ParamNames == {"prompt", "imgURL", "videoURL"}
ParamValues ==
    {<<>>, <<"hello">>, <<"a", "&", "url", "=", "b">>, <<"a", "?", "b", "#", "c">>}
Pairs == [name : ParamNames, value : ParamValues]
Queries == UNION {[1..n -> Pairs] : n \in 0..MaxParams}
Requests == [method : Methods, path : Paths, query : Queries]

\* Inputs: what the upstream does with one GET
StatusFields == {Undefined, JStr("true"), JStr("false"), JBool("true")}
ResultFields == {Undefined, JStr("X"), JNum("7")}
MessageFields == {Undefined, JStr("Y")}
Field(k, val) == IF val = Undefined THEN NoFields ELSE (k :> val)
UpstreamObjects ==
    {JObject(Field("status", s) @@ Field("result", r) @@ Field("message", m)) :
        s \in StatusFields, r \in ResultFields, m \in MessageFields}
UpstreamData == UpstreamObjects \cup {JNull, JNum("7"), JStr("true"), JArray, JBool("true")}
UpstreamStatuses == {200, 500}

----------------------------------------------------------------------------
\* Platform operations the program calls

Min(S) == CHOOSE x \in S : \A y \in S : x <= y

\* URLSearchParams.get(name): the value of the first pair named name, or null
searchParamsGet(query, name) ==
    LET idx == {k \in 1..Len(query) : query[k].name = name}
    IN  IF idx = {} THEN Null ELSE Some(query[Min(idx)].value)

\* defect: a test for null only (x === null), which lets "" through
NotNullOnly(x) == ~x.has

\* !x for x a string or null: null and "" are falsy
Not(x) == ~x.has \/ Len(x.s) = 0

\* ${x} in a template literal: String(x)
Interpolate(x) == IF x.has THEN x.s ELSE <<"null">>

\* data.key: a property read; throws a TypeError on null, undefined for a
\* key the value does not have
PropThrows(data) == data.t \in {"null", "undefined"}
GetProp(data, key) ==
    IF data.t = "object" /\ key \in DOMAIN data.f THEN data.f[key] ELSE Undefined

\* JSON.stringify(obj), given as the JSON object the text denotes: keys whose
\* value is undefined are omitted
JSONstringify(obj) ==
    [k \in {k \in DOMAIN obj : obj[k] # Undefined} |-> obj[k]]

NoHeaders == [n \in {} |-> ""]

\* new Response(body, init) for a string body: status defaults to 200, and a
\* string body without a Content-Type in init gets text/plain;charset=UTF-8
NewResponse(body, init) ==
    LET given == IF "headers" \in DOMAIN init THEN init.headers ELSE NoHeaders
    IN  [status  |-> IF "status" \in DOMAIN init THEN init.status ELSE 200,
         headers |-> IF "Content-Type" \in DOMAIN given
                     THEN given
                     ELSE given @@ ("Content-Type" :> "text/plain;charset=UTF-8"),
         body    |-> body]

----------------------------------------------------------------------------
\* The program

Host == <<"https://api.nyxs.pw">>

\* defect: the code written as a number (code: 200) instead of a string
EnvelopeNumericCode(code, reply) == [code |-> JNum(code), reply |-> reply]

Envelope(code, reply) == [code |-> JStr(code), reply |-> reply]

\* defect: the catch block replies with another text
CatchEnvelopeOtherText == [code |-> JStr("500"), reply |-> JStr("Internal Server Error")]

\* fetchAndFormatResponse, the catch block
CatchEnvelope == Envelope("500", JStr("Request error occurred"))

\* defect: result and message taken from the wrong branches
FormatDataSwapped(data) ==
    IF PropThrows(data) THEN CatchEnvelope
    ELSE IF GetProp(data, "status") = JStr("true")
         THEN Envelope("200", GetProp(data, "message"))
         ELSE Envelope("200", GetProp(data, "result"))

\* defect: an upstream failure (status not "true") reported with code "500"
FormatDataFailCode(data) ==
    IF PropThrows(data) THEN CatchEnvelope
    ELSE IF GetProp(data, "status") = JStr("true")
         THEN Envelope("200", GetProp(data, "result"))
         ELSE Envelope("500", GetProp(data, "message"))

\* defect: a truthiness test (if (data.status)) for the comparison with "true"
FormatDataTruthy(data) ==
    IF PropThrows(data) THEN CatchEnvelope
    ELSE IF GetProp(data, "status") # Undefined
         THEN Envelope("200", GetProp(data, "result"))
         ELSE Envelope("200", GetProp(data, "message"))

\* defect: the other field used when the branch's own field is missing
\* (data.result ?? data.message, data.message ?? data.result)
FormatDataFallback(data) ==
    IF PropThrows(data) THEN CatchEnvelope
    ELSE IF GetProp(data, "status") = JStr("true")
         THEN Envelope("200", IF GetProp(data, "result") # Undefined
                              THEN GetProp(data, "result") ELSE GetProp(data, "message"))
         ELSE Envelope("200", IF GetProp(data, "message") # Undefined
                              THEN GetProp(data, "message") ELSE GetProp(data, "result"))

\* fetchAndFormatResponse, the branch on data.status once the body is parsed
FormatData(data) ==
    IF PropThrows(data) THEN CatchEnvelope
    ELSE IF GetProp(data, "status") = JStr("true")
         THEN Envelope("200", GetProp(data, "result"))
         ELSE Envelope("200", GetProp(data, "message"))

\* what a handler does up to its first await: it returns a Response at once,
\* or it calls fetchAndFormatResponse(apiUrl)
Respond(r) == [kind |-> "respond", resp |-> r, url |-> <<>>]
Call(url) == [kind |-> "call", resp |-> NewResponse(NoFields, NoFields), url |-> url]

BadRequest(reply) ==
    NewResponse(JSONstringify(Envelope("400", JStr(reply))), [status |-> 400])

\* encodeURIComponent, on the characters that delimit a URL's parts
encodeURIComponent(s) ==
    [i \in 1..Len(s) |->
        IF s[i] = "&" THEN "%26"
        ELSE IF s[i] = "=" THEN "%3D"
        ELSE IF s[i] = "?" THEN "%3F"
        ELSE IF s[i] = "#" THEN "%23"
        ELSE s[i]]

\* defect (of the claim that values go in raw): the prompt percent-encoded
geminiHandlerEncoded(request) ==
    LET prompt == searchParamsGet(request.query, "prompt")
    IN  IF Not(prompt) THEN Respond(BadRequest("Prompt is required"))
        ELSE Call(Host \o <<"/ai/gemini", "?", "text", "=">>
                       \o encodeURIComponent(Interpolate(prompt)))

geminiHandler(request) ==
    LET prompt == searchParamsGet(request.query, "prompt")
    IN  IF Not(prompt) THEN Respond(BadRequest("Prompt is required"))
        ELSE Call(Host \o <<"/ai/gemini", "?", "text", "=">> \o Interpolate(prompt))

\* defect: a parameter the endpoint does not require passed on when present
geminiAdvanceHandlerForwardsImg(request) ==
    LET prompt == searchParamsGet(request.query, "prompt")
        imgURL == searchParamsGet(request.query, "imgURL")
    IN  IF Not(prompt) THEN Respond(BadRequest("Prompt is required"))
        ELSE Call(Host \o <<"/ai/gemini-advance", "?", "text", "=">> \o Interpolate(prompt)
                       \o (IF Not(imgURL) THEN <<>>
                           ELSE <<"&", "url", "=">> \o Interpolate(imgURL)))

geminiAdvanceHandler(request) ==
    LET prompt == searchParamsGet(request.query, "prompt")
    IN  IF Not(prompt) THEN Respond(BadRequest("Prompt is required"))
        ELSE Call(Host \o <<"/ai/gemini-advance", "?", "text", "=">> \o Interpolate(prompt))

\* defect: && for || in the validation
readImageHandlerAnd(request) ==
    LET prompt == searchParamsGet(request.query, "prompt")
        imgURL == searchParamsGet(request.query, "imgURL")
    IN  IF Not(prompt) /\ Not(imgURL)
        THEN Respond(BadRequest("Prompt and imgURL are required"))
        ELSE Call(Host \o <<"/ai/gemini-img", "?", "text", "=">> \o Interpolate(prompt)
                       \o <<"&", "url", "=">> \o Interpolate(imgURL))

readImageHandler(request) ==
    LET prompt == searchParamsGet(request.query, "prompt")
        imgURL == searchParamsGet(request.query, "imgURL")
    IN  IF Not(prompt) \/ Not(imgURL)
        THEN Respond(BadRequest("Prompt and imgURL are required"))
        ELSE Call(Host \o <<"/ai/gemini-img", "?", "text", "=">> \o Interpolate(prompt)
                       \o <<"&", "url", "=">> \o Interpolate(imgURL))

\* defect: the image handler's upstream path left in the copied handler
videoHandlerImgPath(request) ==
    LET prompt == searchParamsGet(request.query, "prompt")
        videoURL == searchParamsGet(request.query, "videoURL")
    IN  IF Not(prompt) \/ Not(videoURL)
        THEN Respond(BadRequest("Prompt and videoURL are required"))
        ELSE Call(Host \o <<"/ai/gemini-img", "?", "text", "=">> \o Interpolate(prompt)
                       \o <<"&", "url", "=">> \o Interpolate(videoURL))

\* defect: the image handler's message left in the copied handler
videoHandlerImgMessage(request) ==
    LET prompt == searchParamsGet(request.query, "prompt")
        videoURL == searchParamsGet(request.query, "videoURL")
    IN  IF Not(prompt) \/ Not(videoURL)
        THEN Respond(BadRequest("Prompt and imgURL are required"))
        ELSE Call(Host \o <<"/ai/gemini-video", "?", "text", "=">> \o Interpolate(prompt)
                       \o <<"&", "url", "=">> \o Interpolate(videoURL))

videoHandler(request) ==
    LET prompt == searchParamsGet(request.query, "prompt")
        videoURL == searchParamsGet(request.query, "videoURL")
    IN  IF Not(prompt) \/ Not(videoURL)
        THEN Respond(BadRequest("Prompt and videoURL are required"))
        ELSE Call(Host \o <<"/ai/gemini-video", "?", "text", "=">> \o Interpolate(prompt)
                       \o <<"&", "url", "=">> \o Interpolate(videoURL))

\* defect: the HTTP status follows the envelope's code
HandlerReturnStatus(response) ==
    NewResponse(JSONstringify(response),
                [status  |-> IF response.code = JStr("500") THEN 500 ELSE 200,
                 headers |-> ("Content-Type" :> "application/json")])

\* the Response a handler returns once fetchAndFormatResponse has returned
HandlerReturn(response) ==
    NewResponse(JSONstringify(response),
                [headers |-> ("Content-Type" :> "application/json")])

\* defect: the 404 envelope sent without {status: 404}
NotFoundNoStatus ==
    NewResponse(JSONstringify(Envelope("404", JStr("Endpoint not found"))), NoFields)

NotFound ==
    NewResponse(JSONstringify(Envelope("404", JStr("Endpoint not found"))),
                [status |-> 404])

\* defect: the last registered route used as the default
RouterDefaultRoute(r) ==
    IF r.path = "/gemini" THEN geminiHandler(r)
    ELSE IF r.path = "/geminiAdvance" THEN geminiAdvanceHandler(r)
    ELSE IF r.path = "/readImage" THEN readImageHandler(r)
    ELSE videoHandler(r)

\* defect: a method restriction in front of the dispatch
RouterGetOnly(r) ==
    IF r.method # "GET" THEN Respond(NotFound)
    ELSE IF r.path = "/gemini" THEN geminiHandler(r)
    ELSE IF r.path = "/geminiAdvance" THEN geminiAdvanceHandler(r)
    ELSE IF r.path = "/readImage" THEN readImageHandler(r)
    ELSE IF r.path = "/video" THEN videoHandler(r)
    ELSE Respond(NotFound)

\* defect: the prompt validated before the path is looked at
RouterValidateFirst(r) ==
    IF Not(searchParamsGet(r.query, "prompt"))
    THEN Respond(BadRequest("Prompt is required"))
    ELSE IF r.path = "/gemini" THEN geminiHandler(r)
    ELSE IF r.path = "/geminiAdvance" THEN geminiAdvanceHandler(r)
    ELSE IF r.path = "/readImage" THEN readImageHandler(r)
    ELSE IF r.path = "/video" THEN videoHandler(r)
    ELSE Respond(NotFound)

\* the function given to serve()
Router(r) ==
    IF r.path = "/gemini" THEN geminiHandler(r)
    ELSE IF r.path = "/geminiAdvance" THEN geminiAdvanceHandler(r)
    ELSE IF r.path = "/readImage" THEN readImageHandler(r)
    ELSE IF r.path = "/video" THEN videoHandler(r)
    ELSE Respond(NotFound)

----------------------------------------------------------------------------
\* State

VARIABLES
    pc,        \* per connection: "idle", "fetch", "json", "done"
    req,       \* the request being handled
    fetched,   \* the URLs passed to fetch() for this request, in order
    upstream,  \* what the upstream did: outcome, HTTP status, parsed body
    envelope,  \* the value fetchAndFormatResponse returned
    resp,      \* the Response returned to serve()
    connected  \* whether the client still holds the inbound connection

vars == <<pc, req, fetched, upstream, envelope, resp, connected>>

NoReq == [method |-> "", path |-> "", query |-> <<>>]
NoUpstream == [outcome |-> "none", status |-> 0, data |-> Undefined]
NoEnvelope == Envelope("", Undefined)
NoResp == [status |-> 0, headers |-> NoHeaders, body |-> NoFields]

Init ==
    /\ pc = [c \in Conns |-> "idle"]
    /\ req = [c \in Conns |-> NoReq]
    /\ fetched = [c \in Conns |-> <<>>]
    /\ upstream = [c \in Conns |-> NoUpstream]
    /\ envelope = [c \in Conns |-> NoEnvelope]
    /\ resp = [c \in Conns |-> NoResp]
    /\ connected = [c \in Conns |-> TRUE]

\* defect: the envelope kept in a module-level variable that all requests share
FinishShared(c, up, env) ==
    /\ upstream' = [upstream EXCEPT ![c] = up]
    /\ envelope' = [d \in DOMAIN envelope |-> env]
    /\ resp' = [resp EXCEPT ![c] = HandlerReturn(env)]
    /\ pc' = [pc EXCEPT ![c] = "done"]
    /\ UNCHANGED <<req, fetched, connected>>

\* fetchAndFormatResponse returns env: the handler resumes and returns
Finish(c, up, env) ==
    /\ upstream' = [upstream EXCEPT ![c] = up]
    /\ envelope' = [envelope EXCEPT ![c] = env]
    /\ resp' = [resp EXCEPT ![c] = HandlerReturn(env)]
    /\ pc' = [pc EXCEPT ![c] = "done"]
    /\ UNCHANGED <<req, fetched, connected>>

\* request r arrives: the router and the handler run up to the first await
Accept(c, r) ==
    /\ req' = [req EXCEPT ![c] = r]
    /\ LET h == Router(r)
       IN  IF h.kind = "respond"
           THEN /\ pc' = [pc EXCEPT ![c] = "done"]
                /\ resp' = [resp EXCEPT ![c] = h.resp]
                /\ UNCHANGED fetched
           ELSE /\ pc' = [pc EXCEPT ![c] = "fetch"]
                /\ fetched' = [fetched EXCEPT ![c] = Append(@, h.url)]
                /\ UNCHANGED resp
    /\ UNCHANGED <<upstream, envelope, connected>>

\* serve() calls the handler with the next request of an idle connection
Serve ==
    \E c \in DOMAIN pc :
        /\ pc[c] = "idle"
        /\ \E r \in Requests : Accept(c, r)

\* await fetch(url) resolves with the upstream's HTTP response
FetchResolve ==
    \E c \in DOMAIN pc :
        /\ pc[c] = "fetch"
        /\ \E status \in UpstreamStatuses :
              upstream' = [upstream EXCEPT ![c] =
                  [outcome |-> "responded", status |-> status, data |-> Undefined]]
        /\ pc' = [pc EXCEPT ![c] = "json"]
        /\ UNCHANGED <<req, fetched, envelope, resp, connected>>

\* defect: a rejected fetch is tried again
FetchRejectRetry ==
    \E c \in DOMAIN pc :
        /\ pc[c] = "fetch"
        /\ fetched' = [fetched EXCEPT ![c] = Append(@, @[1])]
        /\ UNCHANGED <<pc, req, upstream, envelope, resp, connected>>

\* defect: fetch awaited outside the try block, so that its rejection leaves
\* the handler without a Response
FetchRejectEscapes ==
    \E c \in DOMAIN pc :
        /\ pc[c] = "fetch"
        /\ pc' = [pc EXCEPT ![c] = "threw"]
        /\ upstream' = [upstream EXCEPT ![c] = [@ EXCEPT !.outcome = "rejected"]]
        /\ UNCHANGED <<req, fetched, envelope, resp, connected>>

\* await fetch(url) rejects (network error)
FetchReject ==
    \E c \in DOMAIN pc :
        /\ pc[c] = "fetch"
        /\ Finish(c, [upstream[c] EXCEPT !.outcome = "rejected"], CatchEnvelope)

\* defect: the upstream's HTTP status checked (if (!response.ok) throw ...)
\* before the body is used
JsonResolveChecksOk ==
    \E c \in DOMAIN pc :
        /\ pc[c] = "json"
        /\ \E data \in UpstreamData :
              Finish(c, [upstream[c] EXCEPT !.outcome = "parsed", !.data = data],
                     IF upstream[c].status = 200 THEN FormatData(data) ELSE CatchEnvelope)

\* await response.json() resolves with the parsed body
JsonResolve ==
    \E c \in DOMAIN pc :
        /\ pc[c] = "json"
        /\ \E data \in UpstreamData :
              Finish(c, [upstream[c] EXCEPT !.outcome = "parsed", !.data = data],
                     FormatData(data))

\* defect: response.json() awaited outside the try block, so that its
\* rejection leaves the handler without a Response
JsonRejectEscapes ==
    \E c \in DOMAIN pc :
        /\ pc[c] = "json"
        /\ pc' = [pc EXCEPT ![c] = "threw"]
        /\ upstream' = [upstream EXCEPT ![c] = [@ EXCEPT !.outcome = "badjson"]]
        /\ UNCHANGED <<req, fetched, envelope, resp, connected>>

\* await response.json() rejects (the body is not JSON)
JsonReject ==
    \E c \in DOMAIN pc :
        /\ pc[c] = "json"
        /\ Finish(c, [upstream[c] EXCEPT !.outcome = "badjson"], CatchEnvelope)

\* the response has been written; the connection takes the next request
Close ==
    \E c \in DOMAIN pc :
        /\ pc[c] = "done"
        /\ pc' = [pc EXCEPT ![c] = "idle"]
        /\ req' = [req EXCEPT ![c] = NoReq]
        /\ fetched' = [fetched EXCEPT ![c] = <<>>]
        /\ upstream' = [upstream EXCEPT ![c] = NoUpstream]
        /\ envelope' = [envelope EXCEPT ![c] = NoEnvelope]
        /\ resp' = [resp EXCEPT ![c] = NoResp]
        /\ connected' = [connected EXCEPT ![c] = TRUE]

\* defect: the request's abort signal handed to fetch (fetch(url, {signal})),
\* so that a pending fetch rejects when the client goes away
DisconnectAborts ==
    \E c \in DOMAIN pc :
        /\ pc[c] \in {"fetch", "json"}
        /\ connected[c]
        /\ connected' = [connected EXCEPT ![c] = FALSE]
        /\ upstream' = [upstream EXCEPT ![c] = [@ EXCEPT !.outcome = "rejected"]]
        /\ envelope' = [envelope EXCEPT ![c] = CatchEnvelope]
        /\ resp' = [resp EXCEPT ![c] = HandlerReturn(CatchEnvelope)]
        /\ pc' = [pc EXCEPT ![c] = "done"]
        /\ UNCHANGED <<req, fetched>>

\* the client closes the inbound connection while its request is in flight:
\* fetch(url) was called without a signal and the handler listens to no
\* abort event, so nothing of the request's handling changes
Disconnect ==
    \E c \in DOMAIN pc :
        /\ pc[c] \in {"fetch", "json"}
        /\ connected[c]
        /\ connected' = [connected EXCEPT ![c] = FALSE]
        /\ UNCHANGED <<pc, req, fetched, upstream, envelope, resp>>

Next ==
    \/ Serve
    \/ FetchResolve
    \/ FetchReject
    \/ JsonResolve
    \/ JsonReject
    \/ Disconnect
    \/ Close

Spec == Init /\ [][Next]_vars

----------------------------------------------------------------------------
\* Two connections at once: serve() starts the handler of each request as it
\* arrives and does not wait for it, so handlers interleave at their awaits

ConcConns == {"c1", "c2"}

Pair(n, v) == [name |-> n, value |-> v]
Request(m, p, q) == [method |-> m, path |-> p, query |-> q]
ConcRequests ==
    { Request("GET", "/gemini", <<Pair("prompt", <<"hello">>)>>),
      Request("POST", "/gemini", <<Pair("prompt", <<"hello">>)>>),
      Request("GET", "/gemini", <<>>),
      Request("GET", "/geminiAdvance", <<Pair("prompt", <<"a", "&", "url", "=", "b">>)>>),
      Request("GET", "/readImage",
              <<Pair("prompt", <<"hello">>), Pair("imgURL", <<"hello">>)>>),
      Request("GET", "/video", <<Pair("prompt", <<"hello">>)>>),
      Request("GET", "/unknown", <<Pair("prompt", <<"hello">>)>>) }

InitConc ==
    /\ pc = [c \in ConcConns |-> "idle"]
    /\ req = [c \in ConcConns |-> NoReq]
    /\ fetched = [c \in ConcConns |-> <<>>]
    /\ upstream = [c \in ConcConns |-> NoUpstream]
    /\ envelope = [c \in ConcConns |-> NoEnvelope]
    /\ resp = [c \in ConcConns |-> NoResp]
    /\ connected = [c \in ConcConns |-> TRUE]

\* defect: one outbound call at a time (a lock around fetchAndFormatResponse)
ServeConcSerial ==
    \E c \in DOMAIN pc :
        /\ pc[c] = "idle"
        /\ \A d \in DOMAIN pc : pc[d] \notin {"fetch", "json"}
        /\ \E r \in ConcRequests : Accept(c, r)

\* serve() calls the handler with the next request of any idle connection,
\* whatever the other connections are doing
ServeConc ==
    \E c \in DOMAIN pc :
        /\ pc[c] = "idle"
        /\ \E r \in ConcRequests : Accept(c, r)

NextConc ==
    \/ ServeConc
    \/ FetchResolve
    \/ FetchReject
    \/ JsonResolve
    \/ JsonReject
    \/ Disconnect
    \/ Close

SpecConc == InitConc /\ [][NextConc]_vars

----------------------------------------------------------------------------
\* The same two connections when every outbound call completes: the fetch of
\* a request, once issued, resolves or rejects, and so does the read of the
\* body it resolved with.  Nothing in the program makes this so (fetch(url)
\* is given no timeout and no signal); it is the proviso under which the
\* program is claimed to answer.  The continuation of the handler runs in
\* the step in which its promise settles, as the event loop schedules it.

Settle(c) ==
    /\ pc[c] \in {"fetch", "json"}
    /\ (FetchResolve \/ FetchReject \/ JsonResolve \/ JsonReject)
    /\ pc'[c] # pc[c]

SpecLive ==
    /\ InitConc
    /\ [][NextConc]_vars
    /\ \A c \in ConcConns : WF_vars(Settle(c))

----------------------------------------------------------------------------
\* One connection, its requests carrying parameters beside the ones their
\* endpoint reads: each registered endpoint with its own parameters, and with
\* one further parameter before or after them (another endpoint's parameter
\* or an unknown one, its value empty or not); the two-parameter endpoints
\* also with the prompt alone

ExtraNames == ParamNames \cup {"lang"}
ExtraValues == {<<>>, <<"hello">>}
PromptValues == {<<"hello">>, <<"a", "&", "url", "=", "b">>}

OwnNames(path) ==
    IF path = "/readImage" THEN <<"prompt", "imgURL">>
    ELSE IF path = "/video" THEN <<"prompt", "videoURL">>
    ELSE <<"prompt">>

OwnQueries(path) ==
    {<<Pair("prompt", v)>> : v \in PromptValues}
    \cup (IF Len(OwnNames(path)) = 2
          THEN {<<Pair("prompt", v), Pair(OwnNames(path)[2], <<"hello">>)>> : v \in PromptValues}
          ELSE {})

ExtraPairs(path) ==
    {p \in [name : ExtraNames, value : ExtraValues] :
        \A i \in 1..Len(OwnNames(path)) : p.name # OwnNames(path)[i]}

ExtraRequests ==
    UNION {UNION {{Request("GET", path, q)}
                  \cup {Request("GET", path, q \o <<e>>) : e \in ExtraPairs(path)}
                  \cup {Request("GET", path, <<e>> \o q) : e \in ExtraPairs(path)}
                  : q \in OwnQueries(path)}
           : path \in Registered}

ServeExtra ==
    \E c \in DOMAIN pc :
        /\ pc[c] = "idle"
        /\ \E r \in ExtraRequests : Accept(c, r)

NextExtra ==
    \/ ServeExtra
    \/ FetchResolve
    \/ FetchReject
    \/ JsonResolve
    \/ JsonReject
    \/ Disconnect
    \/ Close

SpecExtra == Init /\ [][NextExtra]_vars

----------------------------------------------------------------------------
\* Vocabulary of the properties: the endpoint table of the specification

RequiredParams(path) ==
    IF path = "/readImage" THEN {"prompt", "imgURL"}
    ELSE IF path = "/video" THEN {"prompt", "videoURL"}
    ELSE {"prompt"}

UpstreamPath(path) ==
    IF path = "/gemini" THEN "/ai/gemini"
    ELSE IF path = "/geminiAdvance" THEN "/ai/gemini-advance"
    ELSE IF path = "/readImage" THEN "/ai/gemini-img"
    ELSE "/ai/gemini-video"

UrlParam(path) == IF path = "/readImage" THEN "imgURL" ELSE "videoURL"

Has(query, name) == \E k \in 1..Len(query) : query[k].name = name
Value(query, name) == searchParamsGet(query, name).s

Valid(r) ==
    /\ r.path \in Registered
    /\ \A n \in RequiredParams(r.path) : Has(r.query, n) /\ Value(r.query, n) # <<>>

ExpectedUrl(r) ==
    Host \o <<UpstreamPath(r.path), "?", "text", "=">> \o Value(r.query, "prompt")
         \o (IF r.path \in {"/readImage", "/video"}
             THEN <<"&", "url", "=">> \o Value(r.query, UrlParam(r.path))
             ELSE <<>>)

Sent(c) == pc[c] = "done"
Body(c) == resp[c].body
BodyIs(c, code, reply) == Body(c) = [code |-> JStr(code), reply |-> reply]
Parsed(c) == Sent(c) /\ upstream[c].outcome = "parsed"
ParsedObject(c) == Parsed(c) /\ upstream[c].data.t = "object"

----------------------------------------------------------------------------
\* C1: on each of the four endpoints, a request that lacks one of the
\* endpoint's required query parameters is answered with HTTP 400 and a body
\* whose code is "400", and fetch is never called for it.
C1_MissingParam400 ==
    \A c \in DOMAIN pc :
        (/\ pc[c] # "idle"
         /\ req[c].path \in Registered
         /\ \E n \in RequiredParams(req[c].path) : ~Has(req[c].query, n))
        => /\ Sent(c)
           /\ resp[c].status = 400
           /\ "code" \in DOMAIN Body(c)
           /\ Body(c).code = JStr("400")
           /\ fetched[c] = <<>>

\* /readImage with a usable prompt and no imgURL has been answered with 400
C1_Witness ==
    \E c \in DOMAIN pc :
        /\ Sent(c)
        /\ req[c].path = "/readImage"
        /\ Value(req[c].query, "prompt") = <<"hello">>
        /\ ~Has(req[c].query, "imgURL")
        /\ resp[c].status = 400
        /\ fetched[c] = <<>>

\* C2: when the upstream body is a JSON object with status "true" and result
\* X, the response body is exactly {code:"200", reply:X}.
C2_TrueStatusReply ==
    \A c \in DOMAIN pc :
        (/\ ParsedObject(c)
         /\ GetProp(upstream[c].data, "status") = JStr("true")
         /\ "result" \in DOMAIN upstream[c].data.f)
        => BodyIs(c, "200", upstream[c].data.f["result"])

\* /video got {status:"true", result:"X", message:"Y"} and replied "X"
C2_Witness ==
    \E c \in DOMAIN pc :
        /\ Sent(c)
        /\ req[c].path = "/video"
        /\ upstream[c].data =
               JObject([status |-> JStr("true"), result |-> JStr("X"), message |-> JStr("Y")])
        /\ BodyIs(c, "200", JStr("X"))

\* C3: when the upstream body is a JSON object with status "false" and
\* message Y, the response body is exactly {code:"200", reply:Y}.
C3_FalseStatusReply ==
    \A c \in DOMAIN pc :
        (/\ ParsedObject(c)
         /\ GetProp(upstream[c].data, "status") = JStr("false")
         /\ "message" \in DOMAIN upstream[c].data.f)
        => BodyIs(c, "200", upstream[c].data.f["message"])

\* /readImage got {status:"false", result:"X", message:"Y"} and replied "Y"
C3_Witness ==
    \E c \in DOMAIN pc :
        /\ Sent(c)
        /\ req[c].path = "/readImage"
        /\ upstream[c].data =
               JObject([status |-> JStr("false"), result |-> JStr("X"), message |-> JStr("Y")])
        /\ BodyIs(c, "200", JStr("Y"))

\* C4: when fetch rejects or the upstream body is not JSON, the response
\* body is exactly {code:"500", reply:"Request error occurred"}.
C4_UpstreamFailure500 ==
    \A c \in DOMAIN pc :
        (Sent(c) /\ upstream[c].outcome \in {"rejected", "badjson"})
        => BodyIs(c, "500", JStr("Request error occurred"))

\* /geminiAdvance got an unparseable body and replied with the 500 envelope
C4_Witness ==
    \E c \in DOMAIN pc :
        /\ Sent(c)
        /\ upstream[c].outcome = "badjson"
        /\ req[c].path = "/geminiAdvance"
        /\ BodyIs(c, "500", JStr("Request error occurred"))

\* C5: a request whose path is none of the four registered paths is answered
\* with HTTP 404 and body {code:"404", reply:"Endpoint not found"}, whatever
\* its query.
C5_UnknownPath404 ==
    \A c \in DOMAIN pc :
        (pc[c] # "idle" /\ req[c].path \notin Registered)
        => /\ Sent(c)
           /\ resp[c].status = 404
           /\ BodyIs(c, "404", JStr("Endpoint not found"))

\* /unknown?prompt=hello has been answered with 404
C5_Witness ==
    \E c \in DOMAIN pc :
        /\ Sent(c)
        /\ req[c].path = "/unknown"
        /\ Value(req[c].query, "prompt") = <<"hello">>
        /\ resp[c].status = 404

\* C6: a valid request calls fetch with the host followed by its own
\* endpoint's template, the parameter values inserted verbatim; no fetch is
\* made with any other URL.
C6_UpstreamUrl ==
    \A c \in DOMAIN pc :
        /\ (pc[c] # "idle" /\ Valid(req[c])) => fetched[c] = <<ExpectedUrl(req[c])>>
        /\ fetched[c] # <<>> => (Valid(req[c]) /\ fetched[c] = <<ExpectedUrl(req[c])>>)

\* /video?prompt=a&url=b (value decoded) &videoURL=hello has called the video
\* upstream with both values inserted as they are
C6_Witness ==
    \E c \in DOMAIN pc :
        /\ req[c].path = "/video"
        /\ fetched[c] = << <<"https://api.nyxs.pw", "/ai/gemini-video", "?", "text", "=",
                             "a", "&", "url", "=", "b", "&", "url", "=", "hello">> >>

\* C7: a response of a route handler has HTTP status 200 whenever fetch was
\* called, also when the body's code is "500"; a route handler's response
\* with another status is the 400 of a request that failed validation.
C7_OuterStatus ==
    \A c \in DOMAIN pc :
        (Sent(c) /\ req[c].path \in Registered)
        => /\ fetched[c] # <<>> => resp[c].status = 200
           /\ resp[c].status # 200 =>
                  (fetched[c] = <<>> /\ resp[c].status = 400 /\ ~Valid(req[c]))

\* a failed upstream call has been answered with HTTP 200 and code "500"
C7_Witness ==
    \E c \in DOMAIN pc :
        /\ Sent(c)
        /\ upstream[c].outcome = "rejected"
        /\ resp[c].status = 200
        /\ Body(c).code = JStr("500")

\* C8: the code of every response body is one of "200", "400", "404", "500".
Codes == {JStr("200"), JStr("400"), JStr("404"), JStr("500")}

C8_CodeDomain ==
    \A c \in DOMAIN pc :
        Sent(c) => ("code" \in DOMAIN Body(c) /\ Body(c).code \in Codes)

\* a response to an upstream body without the expected fields has been sent
C8_Witness ==
    \E c \in DOMAIN pc :
        /\ Sent(c)
        /\ upstream[c].outcome = "parsed"
        /\ upstream[c].data = JArray
        /\ Body(c).code = JStr("200")

\* C9: every response body has both a code and a reply field, the reply
\* being a string, whatever JSON the upstream returned.
C9_EnvelopeShape ==
    \A c \in DOMAIN pc :
        Sent(c) => /\ DOMAIN Body(c) = {"code", "reply"}
                   /\ Body(c).reply.t = "string"

\* C10: every response of the four endpoints carries
\* Content-Type: application/json, the 400 responses included.
C10_ContentTypeJson ==
    \A c \in DOMAIN pc :
        (Sent(c) /\ req[c].path \in Registered)
        => resp[c].headers["Content-Type"] = "application/json"

\* C11: a request calls fetch at most once, a valid request to a registered
\* endpoint exactly once; a failed call is not retried, and the response is
\* produced only after the call has resolved or rejected.
Settled == {"rejected", "badjson", "parsed"}

C11_SingleCall ==
    \A c \in DOMAIN pc :
        /\ Len(fetched[c]) <= 1
        /\ (pc[c] # "idle" /\ Valid(req[c])) => Len(fetched[c]) = 1
        /\ pc[c] \in {"fetch", "json"} => resp[c] = NoResp
        /\ (Sent(c) /\ fetched[c] # <<>>) => upstream[c].outcome \in Settled

\* a request whose fetch rejected has been answered after exactly one call
C11_Witness ==
    \E c \in DOMAIN pc :
        /\ Sent(c)
        /\ upstream[c].outcome = "rejected"
        /\ Len(fetched[c]) = 1
        /\ resp[c] # NoResp

\* C12: the router dispatches on exact path equality only: /gemini/ and
\* /Gemini get the 404 response, and what a request is answered or which
\* upstream URL it calls is the same whatever its HTTP method.
C12_ExactPathOnly ==
    \A c \in DOMAIN pc :
        pc[c] # "idle" =>
            /\ req[c].path \in {"/gemini/", "/Gemini"} =>
                   /\ Sent(c)
                   /\ resp[c].status = 404
                   /\ BodyIs(c, "404", JStr("Endpoint not found"))
                   /\ fetched[c] = <<>>
            /\ \A m \in Methods :
                   LET h == Router([req[c] EXCEPT !.method = m])
                   IN  /\ h.kind = "respond" => (Sent(c) /\ resp[c] = h.resp)
                       /\ h.kind = "call" => fetched[c] = <<h.url>>

\* POST /gemini?prompt=hello has called the /gemini upstream
C12_Witness ==
    \E c \in DOMAIN pc :
        /\ req[c].method = "POST"
        /\ req[c].path = "/gemini"
        /\ fetched[c] = << <<"https://api.nyxs.pw", "/ai/gemini", "?", "text", "=", "hello">> >>

\* C13: requests are independent under any interleaving: two requests with
\* the same path and parameters call the same upstream URL and, given the
\* same outcome of their own upstream call, get the same response, whatever
\* else was in flight; and a step of one request changes nothing that belongs
\* to another.
SameRequest(c, d) == req[c].path = req[d].path /\ req[c].query = req[d].query
SameOutcome(c, d) ==
    /\ upstream[c].outcome = upstream[d].outcome
    /\ upstream[c].data = upstream[d].data

C13_Determined ==
    \A c, d \in DOMAIN pc :
        (pc[c] # "idle" /\ pc[d] # "idle" /\ SameRequest(c, d)) =>
            /\ fetched[c] = fetched[d]
            /\ (Sent(c) /\ Sent(d) /\ SameOutcome(c, d)) => resp[c] = resp[d]

C13_Frame ==
    \E c \in DOMAIN pc :
        \A d \in DOMAIN pc \ {c} :
            /\ pc'[d] = pc[d]
            /\ req'[d] = req[d]
            /\ fetched'[d] = fetched[d]
            /\ upstream'[d] = upstream[d]
            /\ envelope'[d] = envelope[d]
            /\ resp'[d] = resp[d]
            /\ connected'[d] = connected[d]

C13_Independent == [](C13_Determined) /\ [][C13_Frame]_vars

\* GET and POST /gemini?prompt=hello were in flight together, got the same
\* upstream body and were answered alike
C13_Witness ==
    /\ DOMAIN pc = ConcConns
    /\ Sent("c1") /\ Sent("c2")
    /\ req["c1"].method = "GET" /\ req["c2"].method = "POST"
    /\ SameRequest("c1", "c2")
    /\ upstream["c1"].outcome = "parsed"
    /\ upstream["c1"].status # upstream["c2"].status
    /\ SameOutcome("c1", "c2")
    /\ resp["c1"] = resp["c2"]

\* C14: the reply of a validation failure is fixed per endpoint: "Prompt is
\* required" on /gemini and /geminiAdvance, "Prompt and imgURL are required"
\* on /readImage, "Prompt and videoURL are required" on /video, whichever of
\* the required parameters is missing.
ValidationMessage(path) ==
    IF path = "/readImage" THEN "Prompt and imgURL are required"
    ELSE IF path = "/video" THEN "Prompt and videoURL are required"
    ELSE "Prompt is required"

C14_ValidationMessage ==
    \A c \in DOMAIN pc :
        (pc[c] # "idle" /\ req[c].path \in Registered /\ ~Valid(req[c]))
        => /\ Sent(c)
           /\ BodyIs(c, "400", JStr(ValidationMessage(req[c].path)))

\* /video with a prompt and no videoURL has got the /video message
C14_Witness ==
    \E c \in DOMAIN pc :
        /\ Sent(c)
        /\ req[c].path = "/video"
        /\ Value(req[c].query, "prompt") = <<"hello">>
        /\ ~Has(req[c].query, "videoURL")
        /\ BodyIs(c, "400", JStr("Prompt and videoURL are required"))

\* C15 as stated: whenever the upstream body parses as JSON and its status is
\* not the string "true", whatever its shape (null included), the result of
\* fetchAndFormatResponse is {code:"200", reply: the body's message}.
C15_NonTrueStatus200 ==
    \A c \in DOMAIN pc :
        (Parsed(c) /\ GetProp(upstream[c].data, "status") # JStr("true"))
        => envelope[c] = [code |-> JStr("200"),
                          reply |-> GetProp(upstream[c].data, "message")]

\* C15 amended: the same for every parsed body other than null (an object
\* without status or with another status, a number, string, array or
\* boolean); for the body null the read of data.status throws and the result
\* is the 500 envelope.
C15_NonTrueStatus200ExceptNull ==
    \A c \in DOMAIN pc :
        /\ (/\ Parsed(c)
            /\ upstream[c].data.t # "null"
            /\ GetProp(upstream[c].data, "status") # JStr("true"))
           => envelope[c] = [code |-> JStr("200"),
                             reply |-> GetProp(upstream[c].data, "message")]
        /\ (Parsed(c) /\ upstream[c].data.t = "null")
           => envelope[c] = [code |-> JStr("500"),
                             reply |-> JStr("Request error occurred")]

\* the body {status: true (boolean), result:"X", message:"Y"} has given the
\* reply "Y"
C15_Witness ==
    \E c \in DOMAIN pc :
        /\ Parsed(c)
        /\ upstream[c].data =
               JObject([status |-> JBool("true"), result |-> JStr("X"), message |-> JStr("Y")])
        /\ envelope[c] = [code |-> JStr("200"), reply |-> JStr("Y")]

\* C16: no exception escapes the handler of a request: a rejected fetch, an
\* unparseable body and a throwing read of the parsed body each end in a
\* returned Response carrying {code:"500", reply:"Request error occurred"},
\* and the connection then takes the next request.
Raised(c) ==
    \/ upstream[c].outcome \in {"rejected", "badjson"}
    \/ upstream[c].outcome = "parsed" /\ PropThrows(upstream[c].data)

C16_NoEscape ==
    \A c \in DOMAIN pc :
        /\ pc[c] \in {"idle", "fetch", "json", "done"}
        /\ Raised(c) => /\ Sent(c)
                        /\ envelope[c] = [code |-> JStr("500"),
                                          reply |-> JStr("Request error occurred")]
                        /\ BodyIs(c, "500", JStr("Request error occurred"))
        /\ Sent(c) => ENABLED Close
        /\ pc[c] = "idle" => ENABLED Serve

\* the body null made the read of data.status throw, and the 500 envelope
\* was returned
C16_Witness ==
    \E c \in DOMAIN pc :
        /\ Sent(c)
        /\ upstream[c].outcome = "parsed"
        /\ upstream[c].data = JNull
        /\ BodyIs(c, "500", JStr("Request error occurred"))

\* C17: a client disconnect is not propagated to the outbound call: the step
\* in which the inbound connection closes leaves the request's call and
\* position as they are, and the call of a disconnected request can still
\* resolve or reject on its own.
C17_DisconnectStep ==
    \A c \in DOMAIN pc :
        (connected[c] /\ ~connected'[c]) =>
            /\ pc'[c] = pc[c]
            /\ fetched'[c] = fetched[c]
            /\ upstream'[c] = upstream[c]
            /\ envelope'[c] = envelope[c]
            /\ resp'[c] = resp[c]

C17_StillRuns ==
    \A c \in DOMAIN pc :
        ~connected[c] =>
            /\ pc[c] \in {"fetch", "json", "done"}
            /\ pc[c] = "fetch" => (ENABLED FetchResolve /\ ENABLED FetchReject)
            /\ pc[c] = "json" => (ENABLED JsonResolve /\ ENABLED JsonReject)
            /\ Sent(c) => upstream[c].outcome \in Settled

C17_NoAbort == [](C17_StillRuns) /\ [][C17_DisconnectStep]_vars

\* the client left while the call was in flight, and the call went on to
\* deliver a body that was parsed
C17_Witness ==
    \E c \in DOMAIN pc :
        /\ ~connected[c]
        /\ Sent(c)
        /\ upstream[c].outcome = "parsed"
        /\ upstream[c].data.t = "object"

\* C18: outbound calls are not rationed: whatever the other connections are
\* doing, an idle connection can take a valid request and issue its fetch at
\* once, so calls are in flight together.
C18_NoAdmissionControl ==
    \A c \in DOMAIN pc :
        pc[c] = "idle" => ENABLED (ServeConc /\ pc'[c] = "fetch")

\* both connections have their fetch pending
C18_Witness ==
    /\ DOMAIN pc = ConcConns
    /\ \A c \in ConcConns : pc[c] = "fetch" /\ Len(fetched[c]) = 1

\* C19: parameter values go into the upstream URL without percent-encoding:
\* every "&", "=", "?" and "#" of a value is in the URL as it is, and a prompt
\* "a&url=b" on /gemini gives an upstream query with text=a and a parameter
\* url=b although the request had no parameter named url.
Count(s, t) == Cardinality({i \in 1..Len(s) : s[i] = t})
Delimiters == {"&", "=", "?", "#"}

\* the query of a URL, and its parameters as a split on "&" and "=" gives them
QueryTokens(url) ==
    SubSeq(url, Min({i \in 1..Len(url) : url[i] = "?"}) + 1, Len(url))
SegmentStarts(q) ==
    {i \in 1..Len(q) : (i = 1 \/ q[i - 1] = "&") /\ q[i] \notin {"&", "="}}
QueryNames(q) == {q[i] : i \in SegmentStarts(q)}
SegmentEnd(q, i) ==
    Min({j \in i..Len(q) : j = Len(q) \/ q[j + 1] = "&"})
QueryValue(q, name) ==
    LET i == Min({k \in SegmentStarts(q) : q[k] = name})
    IN  SubSeq(q, i + 2, SegmentEnd(q, i))

TemplateCount(path, t) ==
    IF t = "?" THEN 1
    ELSE IF t = "=" THEN (IF path \in {"/readImage", "/video"} THEN 2 ELSE 1)
    ELSE IF t = "&" THEN (IF path \in {"/readImage", "/video"} THEN 1 ELSE 0)
    ELSE 0

ValueCount(r, t) ==
    Count(Value(r.query, "prompt"), t)
    + (IF r.path \in {"/readImage", "/video"}
       THEN Count(Value(r.query, UrlParam(r.path)), t) ELSE 0)

C19_RawInterpolation ==
    \A c \in DOMAIN pc :
        fetched[c] # <<>> =>
            LET url == fetched[c][1]
                q == QueryTokens(url)
            IN  /\ \A t \in Delimiters :
                       Count(url, t) = TemplateCount(req[c].path, t) + ValueCount(req[c], t)
                /\ \A i \in 1..Len(url) : url[i] \notin {"%26", "%3D", "%3F", "%23"}
                /\ (/\ req[c].path = "/gemini"
                    /\ Value(req[c].query, "prompt") = <<"a", "&", "url", "=", "b">>)
                   => /\ ~Has(req[c].query, "url")
                      /\ "url" \in QueryNames(q)
                      /\ QueryValue(q, "url") = <<"b">>
                      /\ QueryValue(q, "text") = <<"a">>

\* /gemini with the prompt a&url=b has called an upstream URL whose query
\* has a url parameter
C19_Witness ==
    \E c \in DOMAIN pc :
        /\ req[c].path = "/gemini"
        /\ fetched[c] # <<>>
        /\ Value(req[c].query, "prompt") = <<"a", "&", "url", "=", "b">>
        /\ QueryNames(QueryTokens(fetched[c][1])) = {"text", "url"}

\* C20: in every response the HTTP status is 400 exactly when the code is
\* "400", 404 exactly when the code is "404", and 200 exactly when the code
\* is "200" or "500"; no response has HTTP status 500.
C20_StatusCodeLink ==
    \A c \in DOMAIN pc :
        Sent(c) =>
            /\ "code" \in DOMAIN Body(c)
            /\ resp[c].status = 400 <=> Body(c).code = JStr("400")
            /\ resp[c].status = 404 <=> Body(c).code = JStr("404")
            /\ resp[c].status = 200 <=> Body(c).code \in {JStr("200"), JStr("500")}
            /\ resp[c].status # 500

\* an unparseable upstream body has been answered with HTTP 200 and code
\* "500", on an upstream response that itself had status 500
C20_Witness ==
    \E c \in DOMAIN pc :
        /\ Sent(c)
        /\ upstream[c].outcome = "badjson"
        /\ upstream[c].status = 500
        /\ resp[c].status = 200
        /\ Body(c).code = JStr("500")

\* C21: a required parameter that is present with an empty value is treated
\* exactly like a missing one: the request gets the response it would get
\* with that parameter removed, which is the endpoint's 400, and fetch is not
\* called; so every URL passed to fetch has a non-empty text interpolated for
\* each parameter of its template.
Without(query, name) ==
    LET Keep(p) == p.name # name
    IN  SelectSeq(query, Keep)

NonEmptyValues == ParamValues \ {<<>>}

FilledTemplate(path, url) ==
    IF path \in {"/readImage", "/video"}
    THEN \E v1, v2 \in NonEmptyValues :
             url = Host \o <<UpstreamPath(path), "?", "text", "=">> \o v1
                        \o <<"&", "url", "=">> \o v2
    ELSE \E v1 \in NonEmptyValues :
             url = Host \o <<UpstreamPath(path), "?", "text", "=">> \o v1

C21_EmptyIsMissing ==
    \A c \in DOMAIN pc :
        /\ (/\ pc[c] # "idle"
            /\ req[c].path \in Registered)
           => \A n \in RequiredParams(req[c].path) :
                  (Has(req[c].query, n) /\ Value(req[c].query, n) = <<>>)
                  => /\ Sent(c)
                     /\ resp[c] = Router([req[c] EXCEPT !.query = Without(@, n)]).resp
                     /\ resp[c].status = 400
                     /\ Body(c).code = JStr("400")
                     /\ fetched[c] = <<>>
        /\ \A i \in 1..Len(fetched[c]) : FilledTemplate(req[c].path, fetched[c][i])

\* /gemini?prompt= (the parameter present, its value empty) has been answered
\* with 400 and without a call
C21_Witness ==
    \E c \in DOMAIN pc :
        /\ Sent(c)
        /\ req[c].path = "/gemini"
        /\ req[c].query = <<Pair("prompt", <<>>)>>
        /\ resp[c].status = 400
        /\ fetched[c] = <<>>

\* what the branch on data.status makes of a parsed body that is not null
ReplyOf(data) ==
    IF GetProp(data, "status") = JStr("true")
    THEN GetProp(data, "result")
    ELSE GetProp(data, "message")

\* C22 as stated: the upstream's HTTP status is never inspected: a parsed
\* JSON body gives code "200" with the reply result or message whatever the
\* status of the upstream response, and code "500" comes only from a fetch
\* rejection or an unparseable body.
C22_StatusIgnored ==
    \A c \in DOMAIN pc :
        /\ Parsed(c) => envelope[c] = [code |-> JStr("200"),
                                       reply |-> ReplyOf(upstream[c].data)]
        /\ envelope[c].code = JStr("500")
           => upstream[c].outcome \in {"rejected", "badjson"}

\* C22 amended: the same, except that the parsed body null also gives code
\* "500" (the read of data.status throws), again whatever the status of the
\* upstream response.
C22_StatusIgnoredExceptNull ==
    \A c \in DOMAIN pc :
        /\ (Parsed(c) /\ upstream[c].data # JNull)
           => envelope[c] = [code |-> JStr("200"),
                             reply |-> ReplyOf(upstream[c].data)]
        /\ (Parsed(c) /\ upstream[c].data = JNull)
           => envelope[c] = [code |-> JStr("500"),
                             reply |-> JStr("Request error occurred")]
        /\ envelope[c].code = JStr("500")
           => \/ upstream[c].outcome \in {"rejected", "badjson"}
              \/ upstream[c].outcome = "parsed" /\ upstream[c].data = JNull

\* an upstream response with HTTP status 500 and the body
\* {status:"true", result:"X"} has been answered with {code:"200", reply:"X"}
C22_Witness ==
    \E c \in DOMAIN pc :
        /\ Sent(c)
        /\ upstream[c].status = 500
        /\ upstream[c].outcome = "parsed"
        /\ upstream[c].data = JObject([status |-> JStr("true"), result |-> JStr("X")])
        /\ BodyIs(c, "200", JStr("X"))

\* C23: the path is dispatched on before any parameter is validated and
\* before any call: a request to an unregistered path is answered with the
\* 404 response, the same with no query parameters, with invalid ones and
\* with ones that a registered endpoint would accept, and fetch is never
\* called for it.
C23_DispatchFirst ==
    \A c \in DOMAIN pc :
        (pc[c] # "idle" /\ req[c].path \notin Registered)
        => /\ Sent(c)
           /\ resp[c].status = 404
           /\ BodyIs(c, "404", JStr("Endpoint not found"))
           /\ resp[c] = Router([req[c] EXCEPT !.query = <<>>]).resp
           /\ fetched[c] = <<>>
           /\ upstream[c] = NoUpstream

\* /unknown without any query parameter has been answered with 404, not
\* with the 400 of a missing prompt
C23_Witness ==
    \E c \in DOMAIN pc :
        /\ Sent(c)
        /\ req[c].path = "/unknown"
        /\ req[c].query = <<>>
        /\ resp[c].status = 404
        /\ fetched[c] = <<>>

\* C24: provided that its outbound call, if one is issued, resolves or
\* rejects, every request is answered, and with exactly one response: the
\* response, once returned, stays as it is until the connection takes the
\* next request; a request answered with 400 or 404 is answered in the step
\* in which it arrives, with no call made; and a request whose call is
\* pending has no response and leaves that position only by its call
\* completing, there being no timeout.
C24_Answered ==
    \A c \in ConcConns : (pc[c] \in {"fetch", "json"}) ~> Sent(c)

C24_NoWait ==
    \A c \in DOMAIN pc :
        /\ Sent(c) <=> resp[c] # NoResp
        /\ (Sent(c) /\ resp[c].status \in {400, 404})
           => (fetched[c] = <<>> /\ upstream[c] = NoUpstream)

C24_Step ==
    \A c \in DOMAIN pc :
        /\ (pc[c] = "idle" /\ pc'[c] # "idle")
           => (IF Router(req'[c]).kind = "respond"
               THEN Sent(c)' /\ resp'[c].status \in {400, 404}
               ELSE pc'[c] = "fetch")
        /\ (pc[c] = "fetch" /\ pc'[c] # "fetch")
           => upstream'[c].outcome \in {"responded", "rejected"}
        /\ (pc[c] = "json" /\ pc'[c] # "json")
           => upstream'[c].outcome \in {"parsed", "badjson"}
        /\ Sent(c) => (resp'[c] = resp[c] \/ pc'[c] = "idle")

C24_EventualResponse == C24_Answered /\ [](C24_NoWait) /\ [][C24_Step]_vars

\* one request has been answered after its call completed while the call of
\* the other, issued earlier or later, is still pending and unanswered
C24_Witness ==
    /\ DOMAIN pc = ConcConns
    /\ Sent("c1")
    /\ upstream["c1"].outcome = "parsed"
    /\ resp["c1"].status = 200
    /\ pc["c2"] = "fetch"
    /\ resp["c2"] = NoResp

\* C25: what a request to a registered endpoint calls or is answered depends
\* on the endpoint's own required parameters only: it is what the request
\* reduced to those parameters calls or is answered, so a parameter the
\* endpoint does not require is neither validated nor forwarded; and any
\* valid request to the same endpoint with the same values of the required
\* parameters builds the URL this one has called.
CanonQuery(path, query) ==
    LET Present(n) == Has(query, n)
        own == SelectSeq(OwnNames(path), Present)
    IN  [i \in 1..Len(own) |-> Pair(own[i], Value(query, own[i]))]

Agree(r1, r2) ==
    /\ r1.path = r2.path
    /\ \A n \in RequiredParams(r1.path) : Value(r1.query, n) = Value(r2.query, n)

C25_OwnParamsOnly ==
    \A c \in DOMAIN pc :
        (pc[c] # "idle" /\ req[c].path \in Registered) =>
            LET h == Router([req[c] EXCEPT !.query = CanonQuery(req[c].path, @)])
            IN  /\ h.kind = "call" => fetched[c] = <<h.url>>
                /\ h.kind = "respond" => (Sent(c) /\ resp[c] = h.resp /\ fetched[c] = <<>>)
                /\ Valid(req[c]) =>
                       /\ fetched[c] = <<ExpectedUrl(req[c])>>
                       /\ \A r2 \in ExtraRequests :
                              (Valid(r2) /\ Agree(req[c], r2))
                              => Router(r2).url = fetched[c][1]

\* /video?imgURL=hello&prompt=hello&videoURL=hello has called the video
\* upstream with the prompt and the videoURL and nothing of the imgURL
C25_Witness ==
    \E c \in DOMAIN pc :
        /\ req[c].path = "/video"
        /\ req[c].query = <<Pair("imgURL", <<"hello">>), Pair("prompt", <<"hello">>),
                            Pair("videoURL", <<"hello">>)>>
        /\ fetched[c] = << <<"https://api.nyxs.pw", "/ai/gemini-video", "?", "text", "=",
                             "hello", "&", "url", "=", "hello">> >>

\* C26: of the fields result and message of a parsed upstream object exactly
\* one is used: with status "true" the reply is result, and the envelope is
\* the same whatever the message is or whether there is one; with any other
\* status the reply is message, and the envelope is the same whatever the
\* result is or whether there is one.
WithField(data, key, val) ==
    JObject([k \in (DOMAIN data.f \ {key}) \cup (IF val = Undefined THEN {} ELSE {key}) |->
                IF k = key THEN val ELSE data.f[k]])

C26_OneFieldUsed ==
    \A c \in DOMAIN pc :
        ParsedObject(c) =>
            LET data == upstream[c].data
            IN  IF GetProp(data, "status") = JStr("true")
                THEN /\ envelope[c] = [code |-> JStr("200"), reply |-> GetProp(data, "result")]
                     /\ \A m \in MessageFields :
                            FormatData(WithField(data, "message", m)) = envelope[c]
                ELSE /\ envelope[c] = [code |-> JStr("200"), reply |-> GetProp(data, "message")]
                     /\ \A r \in ResultFields :
                            FormatData(WithField(data, "result", r)) = envelope[c]

\* the body {status:"true", message:"Y"}, which has no result, has given an
\* envelope without a reply: the message was not used in its place
C26_Witness ==
    \E c \in DOMAIN pc :
        /\ Sent(c)
        /\ upstream[c].outcome = "parsed"
        /\ upstream[c].data = JObject([status |-> JStr("true"), message |-> JStr("Y")])
        /\ envelope[c] = [code |-> JStr("200"), reply |-> Undefined]
        /\ Body(c) = [code |-> JStr("200")]

====
